---- MODULE Spec2Model ----
(***************************************************************************)
(* Model of docs/js/slide-system.js: the segmentation of the children of   *)
(* .main into slides (createSlides), the navigation controls               *)
(* (createNavigation), the navigator (showSlide, nextSlide, prevSlide,     *)
(* goToSlide) and the three event handlers (mode button click, keydown,    *)
(* hashchange).                                                            *)
(*                                                                         *)
(* Content nodes are identified by their 1-based position in the document  *)
(* (orig); indexes handed to the JavaScript array operations are kept      *)
(* 0-based as in the source.  Strings the code parses or formats (the URL  *)
(* fragment, the counter text) are sequences of one-character strings.     *)
(***************************************************************************)
EXTENDS Integers, Sequences, FiniteSets, TLC

VARIABLES
    orig,         \* tag names of the content children of .main at load time
    main,         \* content nodes that are still direct children of .main
    slides,       \* the slides array: each slide the nodes moved into its div
    navCount,     \* number of .slide-nav/.slide-dots pairs appended to .main
    slidesMode,   \* body.classList.contains('slides-mode')
    currentSlide, \* the module-level currentSlide
    active,       \* 0-based indexes of the slide divs carrying class 'active'
    counter,      \* textContent of .slide-counter of the current slideNav
    prevDisabled, \* .slide-prev.disabled of the current slideNav
    nextDisabled, \* .slide-next.disabled of the current slideNav
    dotCount,     \* number of .slide-dot children of the current slideDots
    dotActive,    \* 0-based indexes of the dots carrying class 'active'
    hash,         \* window.location.hash
    pending,      \* hashchange events queued and not yet delivered
    ev,           \* the event whose handler ran last: <<type, detail>>
    calls,        \* arguments of the showSlide calls made by that handler
    docsClick     \* a prev/next/dot control was clicked since docs-mode was
                  \* last entered

vars == <<orig, main, slides, navCount, slidesMode, currentSlide, active,
          counter, prevDisabled, nextDisabled, dotCount, dotActive, hash,
          pending, ev, calls, docsClick>>

----------------------------------------------------------------------------
(* Bounds of the model *)

\* longest content sequence drawn for the segmentation specification
MaxLen == 5
\* longest content sequence drawn for the navigation specification
NavLen == 2
\* length of the long deck (more slides than dots) of the navigation specification
MaxDeck == 11
\* most hashchange events queued at once
MaxPending == 2
\* most runs of createNavigation
MaxNav == 2

(* Program constants *)

\* Math.min(slides.length, 10)
DotCap == 10

Tags == {"H1", "H2", "HR", "P"}

----------------------------------------------------------------------------
(* Text: template literals, String.prototype.match, parseInt *)

DigitChars == <<"0", "1", "2", "3", "4", "5", "6", "7", "8", "9">>

IsDigit(c) == \E d \in 1..10 : DigitChars[d] = c

DigitValue(c) == (CHOOSE d \in 1..10 : DigitChars[d] = c) - 1

\* `${n}` for a non-negative integer n
RECURSIVE ToDigits(_)
ToDigits(n) ==
    IF n < 10 THEN <<DigitChars[n + 1]>>
    ELSE ToDigits(n \div 10) \o <<DigitChars[(n % 10) + 1]>>

\* parseInt of a non-empty run of decimal digits
RECURSIVE ParseInt(_)
ParseInt(ds) ==
    IF Len(ds) = 0 THEN 0
    ELSE 10 * ParseInt(SubSeq(ds, 1, Len(ds) - 1)) + DigitValue(ds[Len(ds)])

SlidePrefix == <<"s", "l", "i", "d", "e", "-">>

\* the longest run of digits of h that starts at position p
RECURSIVE DigitRun(_, _)
DigitRun(h, p) ==
    IF p <= Len(h) /\ IsDigit(h[p]) THEN <<h[p]>> \o DigitRun(h, p + 1)
    ELSE <<>>

\* /slide-(\d+)/ matches h at position p
MatchesAt(h, p) ==
    /\ p + Len(SlidePrefix) <= Len(h)
    /\ SubSeq(h, p, p + Len(SlidePrefix) - 1) = SlidePrefix
    /\ IsDigit(h[p + Len(SlidePrefix)])

\* hash.match(/slide-(\d+)/): the match is unanchored and leftmost, the
\* group is greedy
SlideMatch(h) ==
    IF \E p \in 1..Len(h) : MatchesAt(h, p)
    THEN LET p == CHOOSE q \in 1..Len(h) :
                    /\ MatchesAt(h, q)
                    /\ \A r \in 1..(q - 1) : ~MatchesAt(h, r)
         IN  [matched |-> TRUE, group |-> DigitRun(h, p + Len(SlidePrefix))]
    ELSE [matched |-> FALSE, group |-> <<>>]

\* SlideFragment with the 0-based index
SlideFragmentZeroBased(index) == SlidePrefix \o ToDigits(index)

\* `slide-${index + 1}`
SlideFragment(index) == SlidePrefix \o ToDigits(index + 1)

\* `${index + 1} of ${slides.length}`
CounterText(index, n) == ToDigits(index + 1) \o <<" ", "o", "f", " ">> \o ToDigits(n)

\* window.location.hash after the assignment window.location.hash = value
HashOf(value) == IF value = <<>> THEN <<>> ELSE <<"#">> \o value

Min(a, b) == IF a < b THEN a ELSE b

----------------------------------------------------------------------------
(* createSlides *)

\* content[i] for a 0-based index i
At(content, i) == content[i + 1]

\* content.findIndex(el => el.tagName === 'H1')
FindH1(tags, content) ==
    IF \E i \in 0..(Len(content) - 1) : tags[At(content, i)] = "H1"
    THEN CHOOSE i \in 0..(Len(content) - 1) :
            /\ tags[At(content, i)] = "H1"
            /\ \A j \in 0..(i - 1) : tags[At(content, j)] # "H1"
    ELSE -1

\* HrH2Breaks with the H2 break points only
RECURSIVE HrH2BreaksHeadingsOnly(_, _, _)
HrH2BreaksHeadingsOnly(tags, content, index) ==
    IF index >= Len(content) THEN <<>>
    ELSE (IF tags[At(content, index)] = "H2" THEN <<index>> ELSE <<>>)
         \o HrH2BreaksHeadingsOnly(tags, content, index + 1)

\* the break points pushed by the forEach over content, from index on
RECURSIVE HrH2Breaks(_, _, _)
HrH2Breaks(tags, content, index) ==
    IF index >= Len(content) THEN <<>>
    ELSE LET tag == tags[At(content, index)]
             here == IF tag = "HR" /\ index + 1 < Len(content) THEN <<index + 1>>
                     ELSE IF tag = "H2" THEN <<index>>
                     ELSE <<>>
         IN  here \o HrH2Breaks(tags, content, index + 1)

\* slideBreakPoints, end marker included
SlideBreakPoints(tags, content) ==
    (IF FindH1(tags, content) # -1 THEN <<FindH1(tags, content)>> ELSE <<>>)
        \o HrH2Breaks(tags, content, 0)
        \o <<Len(content)>>

\* content.slice(start, end) for 0 <= start, end <= content.length
Slice(content, start, end) ==
    [j \in 1..(IF end > start THEN end - start ELSE 0) |-> content[start + j]]

\* KeepsSlide without the test for a lone HR
KeepsSlideLengthOnly(tags, slideContent) == Len(slideContent) > 0

\* the test that skips empty slides and slides with only an HR
KeepsSlide(tags, slideContent) ==
    /\ Len(slideContent) > 0
    /\ ~(Len(slideContent) = 1 /\ tags[slideContent[1]] = "HR")

\* the nodes appended to the slide div: every element but the HRs
SlideNodes(tags, slideContent) ==
    SelectSeq(slideContent, LAMBDA el : tags[el] # "HR")

\* the slide contents appended by the loop over the break points, from i on
RECURSIVE SlidesFrom(_, _, _, _)
SlidesFrom(tags, content, bp, i) ==
    IF i >= Len(bp) - 1 THEN <<>>
    ELSE LET slideContent == Slice(content, At(bp, i), At(bp, i + 1))
         IN  (IF KeepsSlide(tags, slideContent)
              THEN <<SlideNodes(tags, slideContent)>>
              ELSE <<>>)
             \o SlidesFrom(tags, content, bp, i + 1)

\* appendChild moves a node: a node appended to a later slide div leaves
\* the earlier one
Relocated(appended) ==
    [k \in 1..Len(appended) |->
        SelectSeq(appended[k],
                  LAMBDA el : \A j \in (k + 1)..Len(appended) :
                                 \A q \in 1..Len(appended[j]) : appended[j][q] # el)]

InSomeSlide(sl, el) == \E k \in 1..Len(sl) : \E q \in 1..Len(sl[k]) : sl[k][q] = el

\* createSlides(): s.main holds the content children of .main (none of them
\* carries a class the filter removes)
CreateSlides(tags, s) ==
    LET content == s.main
        built   == Relocated(SlidesFrom(tags, content, SlideBreakPoints(tags, content), 0))
    IN  [s EXCEPT !.slides = built,
                  !.main   = SelectSeq(content,
                                 LAMBDA el : ~InSomeSlide(built, el) /\ tags[el] # "HR")]

----------------------------------------------------------------------------
(* The program state as one record, so that a handler is the composition of *)
(* the functions it calls.                                                  *)

State ==
    [main |-> main, slides |-> slides, navCount |-> navCount,
     slidesMode |-> slidesMode, currentSlide |-> currentSlide,
     active |-> active, counter |-> counter, prevDisabled |-> prevDisabled,
     nextDisabled |-> nextDisabled, dotCount |-> dotCount,
     dotActive |-> dotActive, hash |-> hash, pending |-> pending,
     calls |-> <<>>]

\* window.location.hash = value: a hashchange event is queued when the
\* fragment changes
SetHash(value, s) ==
    [s EXCEPT !.hash = HashOf(value),
              !.pending = IF HashOf(value) # s.hash THEN @ + 1 ELSE @]

----------------------------------------------------------------------------
(* createNavigation *)

\* DotsFor without the cap
DotsForUncapped(n) == n

\* the loop bound of the dots: Math.min(slides.length, 10)
DotsFor(n) == Min(n, DotCap)

\* createNavigation(): a new .slide-nav and a new .slide-dots are appended
\* and become slideNav and slideDots
CreateNavigation(s) ==
    [s EXCEPT !.navCount     = @ + 1,
              !.counter      = CounterText(0, Len(s.slides)),
              !.prevDisabled = FALSE,
              !.nextDisabled = FALSE,
              !.dotCount     = DotsFor(Len(s.slides)),
              !.dotActive    = {}]

----------------------------------------------------------------------------
(* showSlide, nextSlide, prevSlide, goToSlide *)

\* OutOfRange without the lower bound
OutOfRangeUpperOnly(index, n) == index >= n

\* the early return of showSlide
OutOfRange(index, n) == index < 0 \/ index >= n

\* .slide-prev.disabled
PrevIsDisabled(index) == index = 0

\* NextIsDisabled compared with the slide count instead of the last index
NextIsDisabledOffByOne(index, n) == index = n

\* .slide-next.disabled
NextIsDisabled(index, n) == index = n - 1

\* DotClass as classList.toggle('active') without the force argument, on
\* the dot of the slide shown
DotClassFlip(wasActive, i, index) == IF i = index THEN ~wasActive ELSE FALSE

\* dot.classList.toggle('active', i === index): the class is present
\* afterwards iff the force argument is true
DotClass(wasActive, i, index) == i = index

ShowSlide(index, s) ==
    LET logged == [s EXCEPT !.calls = Append(@, index)]
        n      == Len(s.slides)
    IN  IF OutOfRange(index, n) THEN logged
        ELSE LET shown == [logged EXCEPT !.active = {index},
                                         !.currentSlide = index]
                 nav   == IF shown.navCount > 0
                          THEN [shown EXCEPT
                                  !.counter      = CounterText(index, n),
                                  !.prevDisabled = PrevIsDisabled(index),
                                  !.nextDisabled = NextIsDisabled(index, n)]
                          ELSE shown
                 dots  == IF nav.navCount > 0
                          THEN [nav EXCEPT
                                  !.dotActive =
                                      {i \in 0..(nav.dotCount - 1) :
                                          DotClass(i \in nav.dotActive, i, index)}]
                          ELSE nav
             IN  SetHash(SlideFragment(index), dots)

\* the guard of nextSlide
HasNext(current, n) == current < n - 1

\* the guard of prevSlide
HasPrev(current) == current > 0

\* NextSlide wrapping around from the last slide to the first
NextSlideWraps(s) ==
    IF HasNext(s.currentSlide, Len(s.slides)) THEN ShowSlide(s.currentSlide + 1, s)
    ELSE ShowSlide(0, s)

NextSlide(s) ==
    IF HasNext(s.currentSlide, Len(s.slides)) THEN ShowSlide(s.currentSlide + 1, s) ELSE s

PrevSlide(s) ==
    IF HasPrev(s.currentSlide) THEN ShowSlide(s.currentSlide - 1, s) ELSE s

GoToSlide(index, s) == ShowSlide(index, s)

----------------------------------------------------------------------------
(* Event handlers *)

\* data-mode of the mode buttons of the page
ModeValues == {"slides", "docs"}

\* slides.length === 0: slides are initialised "if not already done"
NeedsInit(s) == Len(s.slides) = 0

\* the index handed to showSlide on entry into slides-mode
EntryIndex(h) ==
    IF SlideMatch(h).matched THEN ParseInt(SlideMatch(h).group) - 1 ELSE 0

\* ModeClick tearing the presentation down on the way to docs-mode
ModeClickTearsDown(tags, mode, s) ==
    IF mode = "slides"
    THEN LET entered == [s EXCEPT !.slidesMode = TRUE]
             inited  == IF NeedsInit(entered)
                        THEN CreateNavigation(CreateSlides(tags, entered))
                        ELSE entered
         IN  ShowSlide(EntryIndex(inited.hash), inited)
    ELSE SetHash(<<>>, [s EXCEPT !.slidesMode = FALSE,
                                 !.currentSlide = 0,
                                 !.active = {}])

\* ModeClick resuming at the preserved current index when the fragment
\* carries no slide number
ModeClickResumes(tags, mode, s) ==
    IF mode = "slides"
    THEN LET entered == [s EXCEPT !.slidesMode = TRUE]
             inited  == IF NeedsInit(entered)
                        THEN CreateNavigation(CreateSlides(tags, entered))
                        ELSE entered
         IN  IF SlideMatch(inited.hash).matched
             THEN ShowSlide(EntryIndex(inited.hash), inited)
             ELSE ShowSlide(inited.currentSlide, inited)
    ELSE SetHash(<<>>, [s EXCEPT !.slidesMode = FALSE])

\* click handler of a mode button with data-mode = mode
ModeClick(tags, mode, s) ==
    IF mode = "slides"
    THEN LET entered == [s EXCEPT !.slidesMode = TRUE]
             inited  == IF NeedsInit(entered)
                        THEN CreateNavigation(CreateSlides(tags, entered))
                        ELSE entered
         IN  ShowSlide(EntryIndex(inited.hash), inited)
    ELSE SetHash(<<>>, [s EXCEPT !.slidesMode = FALSE])

\* e.key >= '1' && e.key <= '9' for a one-character key
IsNumberKey(key) == IsDigit(key) /\ DigitValue(key) >= 1

\* KeyDown without the early return outside slides-mode
KeyDownAnyMode(tags, key, s) ==
    CASE key = "ArrowLeft" -> PrevSlide(s)
      [] key \in {"ArrowRight", " "} -> NextSlide(s)
      [] key = "Home" -> GoToSlide(0, s)
      [] key = "End" -> GoToSlide(Len(s.slides) - 1, s)
      [] key = "Escape" -> ModeClick(tags, "docs", s)
      [] OTHER ->
           IF IsNumberKey(key) /\ DigitValue(key) - 1 < Len(s.slides)
           THEN GoToSlide(DigitValue(key) - 1, s)
           ELSE s

\* KeyDown taking the number key as a 0-based index
KeyDownDigitAsIndex(tags, key, s) ==
    IF ~s.slidesMode THEN s
    ELSE CASE key = "ArrowLeft" -> PrevSlide(s)
           [] key \in {"ArrowRight", " "} -> NextSlide(s)
           [] key = "Home" -> GoToSlide(0, s)
           [] key = "End" -> GoToSlide(Len(s.slides) - 1, s)
           [] key = "Escape" -> ModeClick(tags, "docs", s)
           [] OTHER ->
                IF IsNumberKey(key) /\ DigitValue(key) < Len(s.slides)
                THEN GoToSlide(DigitValue(key), s)
                ELSE s

\* keydown handler
KeyDown(tags, key, s) ==
    IF ~s.slidesMode THEN s
    ELSE CASE key = "ArrowLeft" -> PrevSlide(s)
           [] key \in {"ArrowRight", " "} -> NextSlide(s)
           [] key = "Home" -> GoToSlide(0, s)
           [] key = "End" -> GoToSlide(Len(s.slides) - 1, s)
           [] key = "Escape" -> ModeClick(tags, "docs", s)
           [] OTHER ->
                IF IsNumberKey(key) /\ DigitValue(key) - 1 < Len(s.slides)
                THEN GoToSlide(DigitValue(key) - 1, s)
                ELSE s

\* HashChange resolving the fragment as the entry into slides-mode does,
\* falling back to showSlide(0)
HashChangeFallsBack(s) ==
    IF s.slidesMode THEN ShowSlide(EntryIndex(s.hash), s) ELSE s

\* HashChange taking the 1-based slide number of the fragment as the index
HashChangeNumberAsIndex(s) ==
    IF s.slidesMode /\ SlideMatch(s.hash).matched
    THEN ShowSlide(ParseInt(SlideMatch(s.hash).group), s)
    ELSE s

\* hashchange handler
HashChange(s) ==
    IF s.slidesMode /\ SlideMatch(s.hash).matched
    THEN ShowSlide(ParseInt(SlideMatch(s.hash).group) - 1, s)
    ELSE s

----------------------------------------------------------------------------
(* Inputs *)

RECURSIVE SeqsUpTo(_, _)
SeqsUpTo(S, n) ==
    IF n = 0 THEN {<<>>}
    ELSE LET shorter == SeqsUpTo(S, n - 1)
         IN  shorter \cup {Append(q, x) : q \in {r \in shorter : Len(r) = n - 1}, x \in S}

\* a deck of n sections, one slide each
Deck(n) == [i \in 1..n |-> "H2"]

\* content sequences of the segmentation specification
SegContents == SeqsUpTo(Tags, MaxLen)

\* content sequences of the navigation specification
NavContents == SeqsUpTo(Tags, NavLen) \cup {Deck(MaxDeck)}

\* fragments the page is loaded with or the user navigates to
ExtHashes ==
    { <<>>,
      <<"#", "t", "o", "p">>,
      <<"#">> \o SlidePrefix,
      <<"#">> \o SlidePrefix \o <<"0">>,
      <<"#">> \o SlidePrefix \o <<"2">>,
      <<"#">> \o SlidePrefix \o <<"9", "9">>,
      <<"#">> \o SlidePrefix \o <<"2", "x">>,
      <<"#", "x">> \o SlidePrefix \o <<"0", "1">> }

Keys == {"ArrowLeft", "ArrowRight", " ", "Home", "End", "Escape", "a",
         "0", "1", "2", "3", "4", "5", "6", "7", "8", "9"}

----------------------------------------------------------------------------
(* The state machine *)

\* the state after DOMContentLoaded: the module-level initialisers have run,
\* the page is in docs-mode and no handler has run
InitWith(contents, hashes) ==
    /\ orig \in contents
    /\ main = [i \in 1..Len(orig) |-> i]
    /\ slides = <<>>
    /\ navCount = 0
    /\ slidesMode = FALSE
    /\ currentSlide = 0
    /\ active = {}
    /\ counter = <<>>
    /\ prevDisabled = FALSE
    /\ nextDisabled = FALSE
    /\ dotCount = 0
    /\ dotActive = {}
    /\ hash \in hashes
    /\ pending = 0
    /\ ev = <<"load", "">>
    /\ calls = <<>>
    /\ docsClick = FALSE

Init == InitWith(NavContents, ExtHashes)

\* the handler of event e ran to completion and left the program in state r
Handled(e, r) ==
    /\ r.pending <= MaxPending
    /\ r.navCount <= MaxNav
    /\ main' = r.main
    /\ slides' = r.slides
    /\ navCount' = r.navCount
    /\ slidesMode' = r.slidesMode
    /\ currentSlide' = r.currentSlide
    /\ active' = r.active
    /\ counter' = r.counter
    /\ prevDisabled' = r.prevDisabled
    /\ nextDisabled' = r.nextDisabled
    /\ dotCount' = r.dotCount
    /\ dotActive' = r.dotActive
    /\ hash' = r.hash
    /\ pending' = r.pending
    /\ calls' = r.calls
    /\ ev' = e
    /\ docsClick' = (IF slidesMode \/ r.slidesMode \/ e = <<"mode", "docs">> THEN FALSE
                     ELSE IF e[1] \in {"click", "dot"} THEN TRUE
                     ELSE docsClick)
    /\ UNCHANGED orig

ClickMode(mode) ==
    /\ mode \in ModeValues
    /\ Handled(<<"mode", mode>>, ModeClick(orig, mode, State))

\* the click listeners of the controls have no test of the mode; they run
\* once createNavigation has made the controls, and a disabled button
\* dispatches no click
ClickPrev ==
    /\ navCount > 0
    /\ ~prevDisabled
    /\ Handled(<<"click", "prev">>, PrevSlide(State))

ClickNext ==
    /\ navCount > 0
    /\ ~nextDisabled
    /\ Handled(<<"click", "next">>, NextSlide(State))

ClickDot(i) ==
    /\ navCount > 0
    /\ i < dotCount
    /\ Handled(<<"dot", DigitChars[i + 1]>>, GoToSlide(i, State))

KeyPress(key) ==
    /\ key \in Keys
    /\ Handled(<<"key", key>>, KeyDown(orig, key, State))

\* the user edits the fragment or goes back/forward: no handler runs yet
EditHash(h) ==
    /\ h # hash
    /\ pending < MaxPending
    /\ hash' = h
    /\ pending' = pending + 1
    /\ ev' = <<"edit", "">>
    /\ calls' = <<>>
    /\ UNCHANGED <<orig, main, slides, navCount, slidesMode, currentSlide,
                   active, counter, prevDisabled, nextDisabled, dotCount,
                   dotActive, docsClick>>

\* a queued hashchange event is delivered
DeliverHashChange ==
    /\ pending > 0
    /\ Handled(<<"hashchange", "">>,
               HashChange([State EXCEPT !.pending = @ - 1]))

Next ==
    \/ \E mode \in ModeValues : ClickMode(mode)
    \/ ClickPrev
    \/ ClickNext
    \/ \E i \in 0..(DotCap - 1) : ClickDot(i)
    \/ \E key \in Keys : KeyPress(key)
    \/ \E h \in ExtHashes : EditHash(h)
    \/ DeliverHashChange

Spec == Init /\ [][Next]_vars

\* the segmentation specification: every content sequence up to MaxLen,
\* driven through the mode buttons
SegInit == InitWith(SegContents, {<<>>})

SegNext ==
    \/ \E mode \in ModeValues : ClickMode(mode)
    \/ DeliverHashChange

SegSpec == SegInit /\ [][SegNext]_vars

\* the navigation specification without fragment edits by the user: every
\* queued hashchange event was caused by a fragment write of the program
NoEditNext ==
    \/ \E mode \in ModeValues : ClickMode(mode)
    \/ ClickPrev
    \/ ClickNext
    \/ \E i \in 0..(DotCap - 1) : ClickDot(i)
    \/ \E key \in Keys : KeyPress(key)
    \/ DeliverHashChange

NoEditSpec == Init /\ [][NoEditNext]_vars

----------------------------------------------------------------------------
(* Vocabulary of the properties *)

\* the navigation state a user observes, without and with the URL fragment
NavState == <<currentSlide, active, counter, prevDisabled, nextDisabled, dotActive>>

Observable == <<NavState, hash>>

ObservableOf(s) ==
    <<<<s.currentSlide, s.active, s.counter, s.prevDisabled, s.nextDisabled,
        s.dotActive>>, s.hash>>

\* createSlides has run
Built == navCount > 0

SlideCount == Len(slides)

RECURSIVE Flatten(_)
Flatten(ss) == IF Len(ss) = 0 THEN <<>> ELSE Head(ss) \o Flatten(Tail(ss))

\* the content nodes of the document that are not HR nodes, in order
NonRuleNodes == SelectSeq([i \in 1..Len(orig) |-> i], LAMBDA el : orig[el] # "HR")

HasTag(tag) == \E i \in 1..Len(orig) : orig[i] = tag

\* the last handler called showSlide exactly once, with index
Showed(index) == calls = <<index>>

\* the 1-based slide number a fragment carries (0 when it carries none):
\* the digits that follow the first "slide-" that digits follow
FragmentNumber(h) == IF SlideMatch(h).matched THEN ParseInt(SlideMatch(h).group) ELSE 0

----------------------------------------------------------------------------
(* C1 - C3: segmentation (checked under SegSpec) *)

\* C1: the slides, concatenated in slide order, are the content sequence
\* with the HR nodes removed: every non-HR node is in exactly one slide, in
\* its original order.
C1_SlidesPartitionContent == Built => Flatten(slides) = NonRuleNodes

\* C2: a non-empty content sequence without H1, H2 and HR nodes becomes
\* exactly one slide, which holds all content nodes in order.
C2_NoBoundarySingleSlide ==
    (Built /\ Len(orig) > 0 /\ ~HasTag("H1") /\ ~HasTag("H2") /\ ~HasTag("HR"))
        => slides = <<[i \in 1..Len(orig) |-> i]>>

\* C3: every slide holds at least one node and no slide holds an HR node.
C3_NoEmptySlideNoRule ==
    \A k \in 1..Len(slides) :
        /\ Len(slides[k]) > 0
        /\ \A q \in 1..Len(slides[k]) : orig[slides[k][q]] # "HR"

\* C3 witness: a document with two HR nodes in a row (an HR-only range) was
\* segmented into at least two slides.
C3_Witness ==
    /\ Built
    /\ Len(slides) >= 2
    /\ \E i \in 1..(Len(orig) - 1) : orig[i] = "HR" /\ orig[i + 1] = "HR"

----------------------------------------------------------------------------
(* C4 - C10: navigation (checked under Spec) *)

\* C4: entering slides-mode with N >= 1 slides makes slide k-1 the current
\* and only active slide when the fragment carries k with 1 <= k <= N, and
\* slide 0 in every other case.
C4_EntryResolvesSlide ==
    [][(ev' = <<"mode", "slides">> /\ Len(slides') >= 1)
          => LET k == FragmentNumber(hash)
                 target == IF 1 <= k /\ k <= Len(slides') THEN k - 1 ELSE 0
             IN  currentSlide' = target /\ active' = {target}]_vars

\* C5: after showSlide(index) with 0 <= index < N exactly the slide at index
\* is active, the current index is index, the counter reads "<index+1> of N",
\* prev is disabled iff index = 0, next iff index = N-1, dot i is active iff
\* i = index, and the fragment is #slide-<index+1>.
C5_ShowSlideConsistent ==
    \A index \in 0..(SlideCount - 1) :
        Showed(index) =>
            /\ active = {index}
            /\ currentSlide = index
            /\ counter = ToDigits(index + 1) \o <<" ", "o", "f", " ">> \o ToDigits(SlideCount)
            /\ prevDisabled <=> (index = 0)
            /\ nextDisabled <=> (index = SlideCount - 1)
            /\ \A i \in 0..(dotCount - 1) : (i \in dotActive) <=> (i = index)
            /\ dotActive \subseteq 0..(dotCount - 1)
            /\ hash = <<"#">> \o SlidePrefix \o ToDigits(index + 1)

\* C5 witness: ArrowRight has shown the second of exactly two slides.
C5_Witness ==
    /\ ev = <<"key", "ArrowRight">>
    /\ Showed(1)
    /\ SlideCount = 2

\* C6: showSlide(index) with index < 0 or index >= N changes nothing: the
\* current index, the active slides and the fragment are unchanged, and so
\* are the counter, the prev/next flags and the dots (which only
\* createNavigation sets in a step that builds the controls).
C6_OutOfRangeIsNoOp ==
    [][(Len(calls') = 1 /\ (calls'[1] < 0 \/ calls'[1] >= Len(slides')))
          => /\ UNCHANGED <<currentSlide, active, hash>>
             /\ (navCount' = navCount
                    => UNCHANGED <<counter, prevDisabled, nextDisabled, dotActive>>)]_vars

\* C6 witness: a hashchange called showSlide out of range while a slide of
\* a non-empty deck was active.
C6_Witness ==
    /\ ev = <<"hashchange", "">>
    /\ Len(calls) = 1
    /\ (calls[1] < 0 \/ calls[1] >= SlideCount)
    /\ SlideCount >= 1
    /\ active # {}

NextEvents == {<<"click", "next">>, <<"key", "ArrowRight">>, <<"key", " ">>}

PrevEvents == {<<"click", "prev">>, <<"key", "ArrowLeft">>}

\* C7: nextSlide() at the last slide (and in an empty deck) and prevSlide()
\* at slide 0 leave the navigation state and the fragment unchanged;
\* otherwise nextSlide() moves the current index to current+1 and
\* prevSlide() to current-1.  The clicks call them in either mode, the
\* keys in slides-mode.
C7_NextPrevAtEnds ==
    [][(slidesMode \/ ev'[1] = "click") =>
          /\ (ev' \in NextEvents =>
                IF currentSlide >= SlideCount - 1
                THEN UNCHANGED Observable
                ELSE currentSlide' = currentSlide + 1)
          /\ (ev' \in PrevEvents =>
                IF currentSlide = 0
                THEN UNCHANGED Observable
                ELSE currentSlide' = currentSlide - 1)]_vars

\* C7 witness: ArrowRight was pressed on the last slide of a deck of at
\* least two slides and showSlide was not called.
C7_Witness ==
    /\ ev = <<"key", "ArrowRight">>
    /\ slidesMode
    /\ calls = <<>>
    /\ SlideCount >= 2
    /\ currentSlide = SlideCount - 1
    /\ active = {currentSlide}

\* C8: from every reachable state, showSlide(i) called twice in a row for a
\* valid i leaves the same observable state as showSlide(i) called once.
C8_ShowSlideIdempotent ==
    \A i \in 0..(SlideCount - 1) :
        ObservableOf(ShowSlide(i, ShowSlide(i, State))) = ObservableOf(ShowSlide(i, State))

\* C8 witness: showSlide(1) has just run from key "2" in a deck with dots,
\* so a second showSlide(1) starts from its result.
C8_Witness ==
    /\ ev = <<"key", "2">>
    /\ Showed(1)
    /\ SlideCount >= 2
    /\ dotActive = {1}

\* C9: in slides-mode a hashchange whose fragment carries k with
\* 1 <= k <= N makes slide k-1 the current and only active slide; one whose
\* fragment carries no slide number, or a k outside 1..N, leaves the
\* navigation state unchanged (no fallback to slide 0).
C9_HashChangeNavigates ==
    [][(ev' = <<"hashchange", "">> /\ slidesMode)
          => LET k == FragmentNumber(hash)
             IN  IF 1 <= k /\ k <= SlideCount
                 THEN currentSlide' = k - 1 /\ active' = {k - 1}
                 ELSE UNCHANGED NavState]_vars

\* C9 witness: a hashchange was delivered in slides-mode for a non-empty
\* fragment without a slide number while a slide other than slide 0 was
\* current, and showSlide was not called.
C9_Witness ==
    /\ ev = <<"hashchange", "">>
    /\ slidesMode
    /\ calls = <<>>
    /\ hash # <<>>
    /\ FragmentNumber(hash) = 0
    /\ currentSlide >= 1
    /\ active = {currentSlide}

\* C10: createSlides and createNavigation run at most once, on the first
\* entry into slides-mode: later entries add no controls.
C10_BuiltAtMostOnce == navCount <= 1

----------------------------------------------------------------------------
(* C11 - C20 *)

\* the fragment showSlide writes for the current slide
CurrentFragment == <<"#">> \o SlidePrefix \o ToDigits(currentSlide + 1)

\* the last event was handled by one of the program's handlers
HandlerRan == ev[1] \in {"mode", "click", "dot", "key", "hashchange"}

\* C11 as claimed: once slides have been built, 0 <= currentSlide < slide
\* count, whatever the content sequence was.
C11_IndexInRangeOnceBuilt == Built => (0 <= currentSlide /\ currentSlide < SlideCount)

\* C11 as amended: in every reachable state in which the deck has at least
\* one slide, 0 <= currentSlide < slide count.
C11_IndexInRange == SlideCount >= 1 => (0 <= currentSlide /\ currentSlide < SlideCount)

\* C11 witness: End has moved the current index to the last slide of a deck
\* of at least two slides.
C11_Witness ==
    /\ ev = <<"key", "End">>
    /\ SlideCount >= 2
    /\ Showed(SlideCount - 1)
    /\ currentSlide = SlideCount - 1

\* C12 as claimed, for the fragment-change notification of a deck with at
\* least one slide: in slides-mode, after the hashchange handler has run to
\* completion, the fragment is #slide-<currentSlide+1>.
C12_FragmentSynchronized ==
    (slidesMode /\ HandlerRan /\ ev[1] = "hashchange" /\ SlideCount >= 1)
        => hash = CurrentFragment

\* C12 as amended: in slides-mode, every handler that changes the current
\* index or the active slide leaves the fragment #slide-<currentSlide+1>.
C12_FragmentFollowsSlideChange ==
    [][(slidesMode' /\ ev'[1] \in {"mode", "click", "dot", "key", "hashchange"}
          /\ (currentSlide' # currentSlide \/ active' # active))
          => hash' = <<"#">> \o SlidePrefix \o ToDigits(currentSlide' + 1)]_vars

\* C12 witness: a click on next has moved from slide 0 to slide 1 in
\* slides-mode.
C12_Witness ==
    /\ ev = <<"click", "next">>
    /\ slidesMode
    /\ Showed(1)
    /\ currentSlide = 1
    /\ active = {1}

\* C13: in docs-mode no key press and no fragment-change notification
\* changes the mode, the current index, the active slide, the counter, the
\* controls, the dots or the fragment.
C13_DocsModeIgnoresKeysAndHash ==
    [][(~slidesMode /\ ev'[1] \in {"key", "hashchange"})
          => UNCHANGED <<slidesMode, NavState, hash>>]_vars

\* C13 witness: ArrowRight was pressed in docs-mode after a deck of at
\* least two slides had been shown, with slide 0 still marked active.
C13_Witness ==
    /\ ev = <<"key", "ArrowRight">>
    /\ ~slidesMode
    /\ SlideCount >= 2
    /\ currentSlide = 0
    /\ active = {0}

\* C14: a deck of N slides has exactly min(N, 10) dots; a click on dot i
\* shows slide i; after a successful showSlide(index) dot index is the only
\* active dot when index < 10 and no dot is active when index >= 10.
C14_DotsCappedAndSingle ==
    Built =>
        /\ dotCount = (IF SlideCount < DotCap THEN SlideCount ELSE DotCap)
        /\ (ev[1] = "dot" =>
               /\ Showed(DigitValue(ev[2]))
               /\ currentSlide = DigitValue(ev[2])
               /\ active = {DigitValue(ev[2])})
        /\ \A index \in 0..(SlideCount - 1) :
               Showed(index) => dotActive = (IF index < DotCap THEN {index} ELSE {})

\* C14 witness: in a deck of more slides than dots, showSlide has shown a
\* slide without a dot and no dot is active.
C14_Witness ==
    /\ SlideCount > DotCap
    /\ dotCount = DotCap
    /\ \E index \in DotCap..(SlideCount - 1) : Showed(index) /\ currentSlide = index
    /\ dotActive = {}

\* the position of the first H1 of the document
FirstH1 == CHOOSE i \in 1..Len(orig) :
              orig[i] = "H1" /\ \A j \in 1..(i - 1) : orig[j] # "H1"

\* node el is the first node of some slide
StartsSlide(el) == \E k \in 1..Len(slides) : Len(slides[k]) > 0 /\ slides[k][1] = el

\* C15: when the content has an H1, the first H1 is the first node of the
\* slide that contains it, for every arrangement of H2 and HR nodes.
C15_FirstH1StartsSlide == (Built /\ HasTag("H1")) => StartsSlide(FirstH1)

\* C16: every H2 is the first node of the slide that contains it, and no
\* slide holds both a node that precedes some HR and a node that follows it.
C16_H2StartsSlideHrSeparates ==
    Built =>
        /\ \A i \in 1..Len(orig) : orig[i] = "H2" => StartsSlide(i)
        /\ \A k \in 1..Len(slides) :
               \A r \in 1..Len(orig) :
                   orig[r] = "HR" =>
                       ~\E a, b \in 1..Len(slides[k]) :
                            slides[k][a] < r /\ r < slides[k][b]

\* C16 witness: a segmented document with an H2 that is not its first node
\* and an HR between two nodes that both ended up in slides.
C16_Witness ==
    /\ Built
    /\ \E i \in 2..Len(orig) : orig[i] = "H2"
    /\ \E r \in 2..(Len(orig) - 1) :
           /\ orig[r] = "HR"
           /\ InSomeSlide(slides, r - 1)
           /\ InSomeSlide(slides, r + 1)

\* C17: entering docs-mode (a click on the docs mode button, or Escape in
\* slides-mode) clears the fragment and removes slides-mode, and leaves the
\* slide list, the current index and the active marking of the slides
\* unchanged.
C17_DocsEntryKeepsSlides ==
    [][(ev' = <<"mode", "docs">> \/ (ev' = <<"key", "Escape">> /\ slidesMode))
          => /\ hash' = <<>>
             /\ ~slidesMode'
             /\ UNCHANGED <<slides, currentSlide, active>>]_vars

\* C17 witness: Escape has left slides-mode from a slide other than slide
\* 0, which is still marked active, and its fragment write is queued.
C17_Witness ==
    /\ ev = <<"key", "Escape">>
    /\ ~slidesMode
    /\ hash = <<>>
    /\ pending >= 1
    /\ currentSlide >= 1
    /\ active = {currentSlide}

\* C18: in slides-mode the digit key d in 1..9 makes slide d-1 the current
\* and only active slide when d <= N, and leaves the navigation state and
\* the fragment unchanged when d > N.
C18_DigitKeys ==
    [][(slidesMode /\ ev'[1] = "key" /\ ev'[2] \in {"1", "2", "3", "4", "5", "6", "7", "8", "9"})
          => LET d == DigitValue(ev'[2])
             IN  IF d <= SlideCount
                 THEN currentSlide' = d - 1 /\ active' = {d - 1}
                 ELSE UNCHANGED Observable]_vars

\* C18 witness: key 9 was pressed in slides-mode in a deck of fewer than
\* nine slides while a slide other than slide 0 was current, and showSlide
\* was not called.
C18_Witness ==
    /\ ev = <<"key", "9">>
    /\ slidesMode
    /\ calls = <<>>
    /\ SlideCount < 9
    /\ currentSlide >= 1
    /\ active = {currentSlide}

----------------------------------------------------------------------------
(* C19, C20: behaviours without fragment edits by the user (checked under *)
(* NoEditSpec)                                                            *)

\* C19: the delivery of a hashchange event caused by a fragment write of
\* the program (by showSlide or by the exit from slides-mode), however many
\* navigation calls and mode toggles happened since the write and however
\* many events are queued, leaves the current index and the active slide
\* unchanged and queues no further event: each delivery shortens the queue
\* by one, so the queue drains.
C19_SelfNotificationsAreInert ==
    [][ev' = <<"hashchange", "">>
          => /\ currentSlide' = currentSlide
             /\ active' = active
             /\ pending' = pending - 1]_vars

\* C19 witness: in slides-mode a hashchange was delivered while another
\* one stayed queued, the handler called showSlide for the current slide,
\* which is not slide 0.
C19_Witness ==
    /\ ev = <<"hashchange", "">>
    /\ slidesMode
    /\ pending >= 1
    /\ currentSlide >= 1
    /\ Showed(currentSlide)
    /\ active = {currentSlide}

\* C20 as claimed: with no fragment edit by the user, re-entering
\* slides-mode from docs-mode with a deck of N >= 1 slides (built on an
\* earlier entry) always shows slide 0, whatever slide was current at the
\* exit: the handler calls showSlide(0).
C20_ReentryShowsFirstSlide ==
    [][(ev' = <<"mode", "slides">> /\ ~slidesMode /\ SlideCount >= 1)
          => /\ calls' = <<0>>
             /\ currentSlide' = 0
             /\ active' = {0}]_vars

\* C20 as amended: with no fragment edit by the user and no click on a
\* prev/next/dot control since docs-mode was entered, re-entering
\* slides-mode with a deck of N >= 1 slides always shows slide 0, whatever
\* slide was current at the exit.
C20_UntouchedReentryShowsFirstSlide ==
    [][(ev' = <<"mode", "slides">> /\ ~slidesMode /\ SlideCount >= 1 /\ ~docsClick)
          => /\ calls' = <<0>>
             /\ currentSlide' = 0
             /\ active' = {0}]_vars

\* C20 witness: slides-mode was left from a slide other than slide 0, no
\* control was clicked since, the fragment is cleared, the preserved index
\* and active marking are still those of that slide, and every queued
\* event has been delivered, so that the mode button re-enters from this
\* state.
C20_Witness ==
    /\ ev = <<"hashchange", "">>
    /\ ~slidesMode
    /\ ~docsClick
    /\ SlideCount >= 2
    /\ hash = <<>>
    /\ pending = 0
    /\ currentSlide >= 1
    /\ active = {currentSlide}

====
